---- MODULE Spec2Model ----
(***************************************************************************)
(* A model of the orchestration examples of skills/agent-swarm-api:        *)
(*   parallel()                        examples/parallel_swarm.py          *)
(*   chain()                           examples/chain_pipeline.py          *)
(*   HierarchicalSwarm.delegate, .synthesize,                              *)
(*   .consensus_vote, .execute         examples/hierarchical_swarm.py      *)
(* One run of one operation is modelled per behaviour: Init draws the      *)
(* operation and its arguments, the actions are the steps of the calling   *)
(* thread and of the pool's worker threads.                                *)
(***************************************************************************)
EXTENDS Integers, Sequences, FiniteSets, Bags, TLC

\* ---------------------------------------------------------------- bounds
MaxInputs == 3      \* longest inputs / workers list drawn
MaxWorkers == 2     \* largest n_workers drawn
MaxVotes == 2       \* largest n_votes drawn
MaxOptions == 2     \* longest options list drawn
MaxSteps == 3       \* longest prompts list drawn

\* ------------------------------------------------------------ input sets
Items == {"a", "b"}                 \* texts of parallel()'s inputs
Outputs == {"x", "y"}               \* texts llm_call may return
WorkerNames == <<"w1", "w2", "w3", "w4">>
Prompts == {"p1", "p2"}             \* step instructions of chain()
Texts == {"t0", "t1", "t2"}         \* chain()'s input and step outputs

\* << coordinator_model, worker_model >> as given to HierarchicalSwarm: the
\* defaults of __init__ and one other configuration.
ModelPairs == { << "claude-opus-4", "claude-sonnet-4" >>,
                << "claude-sonnet-4", "claude-haiku-3" >> }

\* Texts that are inspected character by character (the ballots and the
\* options) are sequences of tokens; "<v>" and "</v>" stand for the
\* literal tags <vote> and </vote>.
OptionTexts == { <<>>, <<"A">>, <<"B">> }
Responses == { <<"A">>,
               <<"<v>", "A", "</v>">>,
               <<"<v>", " ", "B", " ", "</v>">> }

SeqsUpTo(S, n) == UNION { [1..k -> S] : k \in 0..n }
Distinct(s) == \A i, j \in 1..Len(s) : s[i] = s[j] => i = j

RECURSIVE SumOver(_, _)
SumOver(f, S) ==
  IF S = {} THEN 0
  ELSE LET x == CHOOSE y \in S : TRUE IN f[x] + SumOver(f, S \ {x})

Range(s) == { s[k] : k \in 1..Len(s) }

VARIABLES
  op,           \* the operation this run executes
  pc,           \* position of the calling thread
  inputs,       \* parallel(): inputs
  workers,      \* HierarchicalSwarm.workers: the worker names, in dict order
  coordinator_model,  \* HierarchicalSwarm.coordinator_model
  worker_model,       \* HierarchicalSwarm.worker_model
  n_workers,    \* parallel(), delegate(): n_workers (0 stands for None in delegate)
  n_votes,      \* consensus_vote(): n_votes
  options,      \* consensus_vote(): options
  max_workers,  \* ThreadPoolExecutor(max_workers=...)
  futures,      \* futures[i]: state of the i-th submitted call, what llm_call
                \* returned in it and the value set on the future
  snap,         \* as_completed: futures found finished when iteration began
  finishedQ,    \* as_completed: futures finished since, in finishing order
  results,      \* results / votes: what the calling thread has collected
  ret,          \* the value returned to the caller
  error,        \* the exception raised to the caller
  prompts,      \* chain(): prompts
  input_text,   \* chain(): input_text
  result,       \* chain(): result
  step,         \* chain(): number of loop iterations begun
  calls,        \* chain(): payload, status and output of every llm_call made
  worker_results,  \* synthesize(): worker_results (in execute(): its local)
  synth         \* synthesize(): model, payload, status and output of its llm_call

vars == << op, pc, inputs, workers, coordinator_model, worker_model, n_workers,
           n_votes, options, max_workers, futures, snap, finishedQ, results,
           ret, error, prompts, input_text, result, step, calls,
           worker_results, synth >>

argVars == << op, inputs, workers, coordinator_model, worker_model, n_workers,
              n_votes, options, prompts, input_text >>
poolVars == << max_workers, futures, snap, finishedQ, results >>
chainVars == << result, step, calls >>
synthVars == << worker_results, synth >>

None == "None"

\* No value yet, where the value will be a list, a tuple or a dict: the
\* result of a future that is not done, what an operation has returned
\* before it returns.
NoValue == << >>
NoError == [type |-> "none"]
DelegateOps == {"delegate", "execute"}   \* execute() begins with delegate(task)
FanOps == {"parallel", "delegate", "execute", "consensus_vote"}

\* ------------------------------------------------------- pure functions

\* str.strip(): leading and trailing blanks removed.
RECURSIVE LStrip(_)
LStrip(s) == IF s # <<>> /\ Head(s) = " " THEN LStrip(Tail(s)) ELSE s

RECURSIVE RStrip(_)
RStrip(s) ==
  IF s # <<>> /\ s[Len(s)] = " " THEN RStrip(SubSeq(s, 1, Len(s) - 1)) ELSE s

Strip(s) == RStrip(LStrip(s))

\* re.search(r'<vote>(.*?)</vote>', response, re.DOTALL): the leftmost
\* opening tag that some closing tag follows, up to the nearest closing tag.
VoteMatch(response) ==
  LET opens == { i \in 1..Len(response) :
                   /\ response[i] = "<v>"
                   /\ \E j \in (i+1)..Len(response) : response[j] = "</v>" }
  IN IF opens = {} THEN [found |-> FALSE, group1 |-> <<>>]
     ELSE LET i == CHOOSE a \in opens : \A b \in opens : a <= b
              j == CHOOSE a \in (i+1)..Len(response) :
                     /\ response[a] = "</v>"
                     /\ \A b \in (i+1)..(a-1) : response[b] # "</v>"
          IN [found |-> TRUE, group1 |-> SubSeq(response, i + 1, j - 1)]

\* vote(): match.group(1).strip() if match else ""
vote(response) ==
  LET match == VoteMatch(response)
  IN IF match.found THEN Strip(match.group1) ELSE <<>>

\* A pooled function that reads the loop variable when it runs instead of
\* taking the item as its argument: every call sees the last item.
WorkerFn_LateBinding(i, out) ==
  CASE op = "parallel" -> << inputs[Len(inputs)], out >>
    [] op \in DelegateOps -> << workers[Len(workers)], out >>
    [] OTHER           -> vote(out)

\* process(item) of parallel(), run_worker(name, ...) of delegate() and
\* vote() of consensus_vote(): what the pooled function returns for the
\* i-th submitted call when llm_call returns out.
WorkerFn(i, out) ==
  CASE op = "parallel" -> << inputs[i], out >>
    [] op \in DelegateOps -> << workers[i], out >>
    [] OTHER           -> vote(out)

LlmOutputs == IF op = "consensus_vote" THEN Responses ELSE Outputs

NItems ==
  CASE op = "parallel" -> Len(inputs)
    [] op \in DelegateOps -> Len(workers)
    [] OTHER           -> n_votes

Finished(i) == futures[i].state \in {"ok", "failed"}
Running == { i \in 1..Len(futures) : futures[i].state = "running" }
Queued == { i \in 1..Len(futures) : futures[i].state = "queued" }

\* ------------------------------------------------------------------ Init

FanInit ==
  /\ max_workers = 0
  /\ futures = <<>>
  /\ snap = {}
  /\ finishedQ = <<>>
  /\ results = <<>>

ChainInit ==
  /\ result = None
  /\ step = 0
  /\ calls = <<>>

NoParallelArgs == inputs = <<>>
NoDelegateArgs == workers = <<>>
NoSwarm == coordinator_model = None /\ worker_model = None
Swarm ==
  \E pair \in ModelPairs : coordinator_model = pair[1] /\ worker_model = pair[2]
NoSynthesizeArgs == worker_results = << >>
NoVoteArgs == n_votes = 0 /\ options = <<>>
NoChainArgs == prompts = <<>> /\ input_text = None

Init ==
  /\ pc = "start"
  /\ ret = NoValue
  /\ error = NoError
  /\ FanInit
  /\ ChainInit
  /\ synth = <<>>
  /\ \/ /\ op = "parallel"
        /\ inputs \in SeqsUpTo(Items, MaxInputs)
        /\ n_workers \in 0..MaxWorkers
        /\ NoDelegateArgs /\ NoSwarm /\ NoVoteArgs /\ NoChainArgs
        /\ NoSynthesizeArgs
     \/ /\ op = "delegate"
        /\ workers \in { SubSeq(WorkerNames, 1, k) : k \in 0..MaxInputs }
        /\ n_workers \in 0..MaxWorkers
        /\ Swarm
        /\ NoParallelArgs /\ NoVoteArgs /\ NoChainArgs /\ NoSynthesizeArgs
     \/ /\ op = "execute"
        /\ workers \in { SubSeq(WorkerNames, 1, k) : k \in 0..MaxInputs }
        /\ n_workers = 0
        /\ Swarm
        /\ NoParallelArgs /\ NoVoteArgs /\ NoChainArgs /\ NoSynthesizeArgs
     \/ /\ op = "synthesize"
        /\ worker_results \in UNION { [Range(SubSeq(WorkerNames, 1, k)) -> Outputs] :
                                       k \in 0..MaxInputs }
        /\ n_workers = 0
        /\ Swarm
        /\ NoParallelArgs /\ NoDelegateArgs /\ NoVoteArgs /\ NoChainArgs
     \/ /\ op = "consensus_vote"
        /\ options \in { o \in SeqsUpTo(OptionTexts, MaxOptions) : Distinct(o) }
        /\ n_votes \in 0..MaxVotes
        /\ n_workers = 0
        /\ Swarm
        /\ NoParallelArgs /\ NoDelegateArgs /\ NoChainArgs /\ NoSynthesizeArgs
     \/ /\ op = "chain"
        /\ prompts \in SeqsUpTo(Prompts, MaxSteps)
        /\ input_text \in Texts
        /\ n_workers = 0
        /\ NoParallelArgs /\ NoDelegateArgs /\ NoSwarm /\ NoVoteArgs
        /\ NoSynthesizeArgs

\* -------------------------------------------------- the pool of threads

\* max_workers as each operation passes it to ThreadPoolExecutor.
PoolSize ==
  CASE op = "parallel" -> n_workers
    [] op \in DelegateOps -> IF n_workers # 0 THEN n_workers ELSE Len(workers)
    [] OTHER           -> n_votes

\* A constructor that accepts any pool size.
PoolCreate_NoCheck ==
  /\ op \in FanOps
  /\ pc = "start"
  /\ pc' = "submit"
  /\ max_workers' = PoolSize
  /\ UNCHANGED << argVars, futures, snap, finishedQ, results, ret, error,
                  chainVars, synthVars >>

\* with ThreadPoolExecutor(max_workers=...): the constructor rejects a
\* size that is not positive with ValueError.
PoolCreate ==
  /\ op \in FanOps
  /\ pc = "start"
  /\ IF PoolSize <= 0
       THEN /\ pc' = "raised"
            /\ error' = [type |-> "ValueError"]
            /\ UNCHANGED max_workers
       ELSE /\ pc' = "submit"
            /\ max_workers' = PoolSize
            /\ UNCHANGED error
  /\ UNCHANGED << argVars, futures, snap, finishedQ, results, ret, chainVars, synthVars >>

\* self.workers[name]: the role prompt configured for the worker name.
system_prompt(name) == << "role", name >>

\* The prompt the i-th pooled call passes to llm_call, fixed by the
\* arguments submit() binds to the call: worker_prompt of process(item),
\* full_prompt of run_worker(name, system_prompt), and the voting_prompt
\* shared by every vote().
CallPrompt(i) ==
  CASE op = "parallel" -> << "prompt", inputs[i] >>
    [] op \in DelegateOps -> << system_prompt(workers[i]), "task" >>
    [] OTHER -> << "task", options >>

\* executor.submit(...): one more call is queued, with its arguments.
Submit ==
  /\ pc = "submit"
  /\ Len(futures) < NItems
  /\ futures' = Append(futures, [state |-> "queued", starts |-> 0, model |-> None,
                                 prompt |-> CallPrompt(Len(futures) + 1),
                                 out |-> None, value |-> NoValue])
  /\ UNCHANGED << argVars, pc, max_workers, snap, finishedQ, results, ret, error,
                  chainVars, synthVars >>

\* as_completed(futures), entered once every call is submitted: the futures
\* already finished are yielded first, in no particular order.
BeginCollect ==
  /\ pc = "submit"
  /\ Len(futures) = NItems
  /\ pc' = "collect"
  /\ snap' = { i \in 1..Len(futures) : Finished(i) }
  /\ UNCHANGED << argVars, max_workers, futures, finishedQ, results, ret, error,
                  chainVars, synthVars >>

\* A pool that starts a thread for every submitted call.
ThreadFree_Unbounded == TRUE

\* A pool whose threads each run one call and are never used again.
ThreadFree_NoReuse ==
  Cardinality({ i \in 1..Len(futures) : futures[i].state # "queued" }) < max_workers

\* A pool thread may take a queued call only while fewer than max_workers
\* calls are running.
ThreadFree == Cardinality(Running) < max_workers

\* Pooled calls all made with the coordinator's model.
CallModel_Coordinator ==
  IF op = "parallel" THEN "claude-sonnet-4" ELSE coordinator_model

\* The model= argument of the pooled llm_call: parallel()'s model parameter
\* (its default), self.worker_model in run_worker() and vote().
CallModel ==
  IF op = "parallel" THEN "claude-sonnet-4" ELSE worker_model

\* A pool thread takes the oldest queued call and enters llm_call.
WorkerStart(i) ==
  /\ i \in Queued
  /\ \A j \in Queued : i <= j
  /\ ThreadFree
  /\ futures' = [futures EXCEPT ![i] = [@ EXCEPT !.state = "running",
                                                 !.starts = @ + 1,
                                                 !.model = CallModel]]
  /\ UNCHANGED << argVars, pc, max_workers, snap, finishedQ, results, ret, error,
                  chainVars, synthVars >>

\* as_completed's waiter: a future finishing during the iteration is
\* queued for the iterator in finishing order.
Notify(i) ==
  IF pc = "collect" THEN finishedQ' = Append(finishedQ, i)
  ELSE UNCHANGED finishedQ

\* A pooled function that also appends its value to results itself.
WorkerReturn_Appends(i, out) ==
  /\ i \in Running
  /\ futures' = [futures EXCEPT ![i] = [@ EXCEPT !.state = "ok", !.out = out,
                                                 !.value = WorkerFn(i, out)]]
  /\ results' = Append(results, WorkerFn(i, out))
  /\ Notify(i)
  /\ UNCHANGED << argVars, pc, max_workers, snap, ret, error, chainVars, synthVars >>

\* llm_call returns out; the pooled function's value is set on the future.
WorkerReturn(i, out) ==
  /\ i \in Running
  /\ futures' = [futures EXCEPT ![i] = [@ EXCEPT !.state = "ok", !.out = out,
                                                 !.value = WorkerFn(i, out)]]
  /\ Notify(i)
  /\ UNCHANGED << argVars, pc, max_workers, snap, results, ret, error, chainVars, synthVars >>

\* llm_call raises; the exception is set on the future.
WorkerFail(i) ==
  /\ i \in Running
  /\ futures' = [futures EXCEPT ![i].state = "failed"]
  /\ Notify(i)
  /\ UNCHANGED << argVars, pc, max_workers, snap, results, ret, error, chainVars, synthVars >>

\* The future the as_completed iterator yields next.
Yields(i) ==
  IF snap # {} THEN i \in snap
  ELSE finishedQ # <<>> /\ i = Head(finishedQ)

AfterYield(i) ==
  IF snap # {} THEN snap' = snap \ {i} /\ UNCHANGED finishedQ
  ELSE finishedQ' = Tail(finishedQ) /\ UNCHANGED snap

\* One iteration of the loop over as_completed(futures): future.result()
\* returns the value, which is collected, or re-raises the call's exception,
\* which leaves the loop and the with block.
Collect(i) ==
  /\ pc = "collect"
  /\ Yields(i)
  /\ AfterYield(i)
  /\ IF futures[i].state = "ok"
       THEN /\ results' = Append(results, futures[i].value)
            /\ UNCHANGED << pc, error >>
       ELSE /\ pc' = "shutdown"
            /\ error' = [type |-> "ExecutionError"]
            /\ UNCHANGED results
  /\ UNCHANGED << argVars, max_workers, futures, ret, chainVars, synthVars >>

\* A with block that lets the exception out without joining the pool.
ShutdownRaise_NoWait ==
  /\ pc = "shutdown"
  /\ pc' = "raised"
  /\ UNCHANGED << argVars, poolVars, ret, error, chainVars, synthVars >>

\* Leaving the with block on an exception: shutdown(wait=True) lets every
\* submitted call run to its end, then the exception reaches the caller.
ShutdownRaise ==
  /\ pc = "shutdown"
  /\ \A i \in 1..Len(futures) : Finished(i)
  /\ pc' = "raised"
  /\ UNCHANGED << argVars, poolVars, ret, error, chainVars, synthVars >>

\* ------------------------------------------------------------ parallel()

\* Lines 52-56, reached when the loop has collected every future: the
\* average elapsed/len(inputs) is formatted, then results is returned.
ParallelReturn ==
  /\ op = "parallel"
  /\ pc = "collect"
  /\ Len(results) = NItems
  /\ IF Len(inputs) = 0
       THEN /\ pc' = "raised"
            /\ error' = [type |-> "ZeroDivisionError"]
            /\ UNCHANGED ret
       ELSE /\ pc' = "done"
            /\ ret' = results
            /\ UNCHANGED error
  /\ UNCHANGED << argVars, poolVars, chainVars, synthVars >>

\* ------------------------------------------- HierarchicalSwarm.delegate()

\* A mapping built by pairing the configured names, in their order, with
\* the outputs in the order they were collected.
Dict_ByPosition(pairs) ==
  [name \in { workers[k] : k \in 1..Len(pairs) } |->
     pairs[CHOOSE k \in 1..Len(pairs) : workers[k] = name][2]]

\* dict(pairs): a later pair replaces an earlier one with the same key.
RECURSIVE Dict(_)
Dict(pairs) ==
  IF pairs = <<>> THEN << >>
  ELSE LET front == Dict(SubSeq(pairs, 1, Len(pairs) - 1))
           last == pairs[Len(pairs)]
       IN [k \in DOMAIN front \cup {last[1]} |->
             IF k = last[1] THEN last[2] ELSE front[k]]

\* return dict(f.result() for f in as_completed(futures))
DelegateReturn ==
  /\ op = "delegate"
  /\ pc = "collect"
  /\ Len(results) = NItems
  /\ pc' = "done"
  /\ ret' = Dict(results)
  /\ UNCHANGED << argVars, poolVars, error, chainVars, synthVars >>

\* ----------------------------------------- HierarchicalSwarm.synthesize()

\* llm_call(coordinator_prompt, model=self.coordinator_model)
SynthModel == coordinator_model

\* coordinator_prompt: the task and json.dumps(worker_results).
SynthPayload(reports) == [task |-> "task", reports |-> reports]

\* synthesize(task, reports) up to its llm_call.
SynthCall(reports) ==
  [model |-> SynthModel, payload |-> SynthPayload(reports),
   status |-> "running", out |-> None]

\* synthesize() called by itself: the prompt is built from worker_results
\* as given and llm_call is entered.
SynthesizeEnter ==
  /\ op = "synthesize"
  /\ pc = "start"
  /\ pc' = "synthesizing"
  /\ synth' = Append(synth, SynthCall(worker_results))
  /\ UNCHANGED << argVars, poolVars, ret, error, chainVars, worker_results >>

\* The coordinator's llm_call returns: synthesize() and execute() return it.
SynthReturn(out) ==
  /\ pc = "synthesizing"
  /\ pc' = "done"
  /\ ret' = out
  /\ synth' = [synth EXCEPT ![Len(synth)] = [@ EXCEPT !.status = "ok", !.out = out]]
  /\ UNCHANGED << argVars, poolVars, error, chainVars, worker_results >>

\* The coordinator's llm_call raises: nothing catches it.
SynthFail ==
  /\ pc = "synthesizing"
  /\ pc' = "raised"
  /\ error' = [type |-> "ExecutionError"]
  /\ synth' = [synth EXCEPT ![Len(synth)].status = "failed"]
  /\ UNCHANGED << argVars, poolVars, ret, chainVars, worker_results >>

\* -------------------------------------------- HierarchicalSwarm.execute()

\* A synthesis started as soon as one report is in.
ExecuteSynthesize_Early ==
  /\ op = "execute"
  /\ pc = "collect"
  /\ Len(results) >= 1
  /\ pc' = "synthesizing"
  /\ worker_results' = Dict(results)
  /\ synth' = Append(synth, SynthCall(Dict(results)))
  /\ UNCHANGED << argVars, poolVars, ret, error, chainVars >>

\* Lines 177-187: delegate(task) returns the dict of the collected pairs
\* once every future is collected, and synthesize(task, worker_results) is
\* entered with it.
ExecuteSynthesize ==
  /\ op = "execute"
  /\ pc = "collect"
  /\ Len(results) = NItems
  /\ pc' = "synthesizing"
  /\ worker_results' = Dict(results)
  /\ synth' = Append(synth, SynthCall(Dict(results)))
  /\ UNCHANGED << argVars, poolVars, ret, error, chainVars >>

\* ------------------------------------- HierarchicalSwarm.consensus_vote()

\* The keys of {opt: 0 for opt in options}, in insertion order.
RECURSIVE DictKeys(_)
DictKeys(opts) ==
  IF opts = <<>> THEN <<>>
  ELSE LET front == DictKeys(SubSeq(opts, 1, Len(opts) - 1))
           last == opts[Len(opts)]
       IN IF last \in Range(front) THEN front ELSE Append(front, last)

\* A count loop written vote_counts[v] = vote_counts.get(v, 0) + 1: a
\* ballot that matches no option gets a key of its own.
RECURSIVE CountVotes_AnyKey(_, _)
CountVotes_AnyKey(counts, votes) ==
  IF votes = <<>> THEN counts
  ELSE LET v == Head(votes)
       IN CountVotes_AnyKey([k \in DOMAIN counts \cup {v} |->
                               IF k = v
                                 THEN (IF v \in DOMAIN counts THEN counts[v] ELSE 0) + 1
                                 ELSE counts[k]],
                            Tail(votes))

\* A count loop that leaves at the first ballot matching no option (break
\* where the code skips the ballot).
RECURSIVE CountVotes_StopAtInvalid(_, _)
CountVotes_StopAtInvalid(counts, votes) ==
  IF votes = <<>> THEN counts
  ELSE LET v == Head(votes)
       IN IF v \in DOMAIN counts
            THEN CountVotes_StopAtInvalid([counts EXCEPT ![v] = @ + 1], Tail(votes))
            ELSE counts

\* for vote_result in votes: if vote_result in vote_counts: += 1
RECURSIVE CountVotes(_, _)
CountVotes(counts, votes) ==
  IF votes = <<>> THEN counts
  ELSE LET v == Head(votes)
       IN CountVotes(IF v \in DOMAIN counts
                       THEN [counts EXCEPT ![v] = @ + 1]
                       ELSE counts,
                     Tail(votes))

vote_counts(opts, votes) == CountVotes([o \in Range(opts) |-> 0], votes)

\* A maximum that also replaces its candidate on an equal count (the last
\* of the tied keys wins).
Beats_OrEqual(new, best) == new >= best

\* max() replaces its candidate only by a key whose count is greater.
Beats(new, best) == new > best

\* max(vote_counts, key=vote_counts.get) over a non-empty dict.
RECURSIVE MaxFrom(_, _, _)
MaxFrom(keys, counts, best) ==
  IF keys = <<>> THEN best
  ELSE MaxFrom(Tail(keys), counts,
               IF Beats(counts[Head(keys)], counts[best]) THEN Head(keys) ELSE best)

MaxKey(keys, counts) == MaxFrom(Tail(keys), counts, Head(keys))

\* A strength computed over the ballots that were counted.
consensus_strength_OverValid(counts, winner) ==
  << counts[winner], SumOver(counts, DOMAIN counts) >>

\* vote_counts[winner] / n_votes, kept as numerator and denominator.
consensus_strength(counts, winner) == << counts[winner], n_votes >>

\* Lines 149-163, reached when every vote is collected: the tally, the
\* winner (max() of an empty dict raises ValueError) and the returned dict.
VoteReturn ==
  /\ op = "consensus_vote"
  /\ pc = "collect"
  /\ Len(results) = NItems
  /\ LET counts == vote_counts(options, results)
         keys == DictKeys(options)
     IN IF keys = <<>>
          THEN /\ pc' = "raised"
               /\ error' = [type |-> "ValueError"]
               /\ UNCHANGED ret
          ELSE LET winner == MaxKey(keys, counts)
               IN /\ pc' = "done"
                  /\ ret' = [votes |-> counts,
                             winner |-> winner,
                             consensus_strength |-> consensus_strength(counts, winner)]
                  /\ UNCHANGED error
  /\ UNCHANGED << argVars, poolVars, chainVars, synthVars >>

\* --------------------------------------------------------------- chain()

\* result = input_text
ChainEnter ==
  /\ op = "chain"
  /\ pc = "start"
  /\ pc' = "loop"
  /\ result' = input_text
  /\ UNCHANGED << argVars, poolVars, ret, error, step, calls, synthVars >>

\* A payload built from the pipeline's original input at every step.
StepPayload_OriginalInput(prompt, text) == [prompt |-> prompt, input |-> input_text]

\* The payload f"{prompt}\n\nInput:\n{result}" of one step.
StepPayload(prompt, text) == [prompt |-> prompt, input |-> text]

\* An iteration that issues the step's call twice.
ChainCall_Twice ==
  /\ pc = "loop"
  /\ step < Len(prompts)
  /\ step' = step + 1
  /\ LET call == [payload |-> StepPayload(prompts[step + 1], result),
                  status |-> "running", out |-> None]
     IN calls' = Append(Append(calls, call), call)
  /\ pc' = "calling"
  /\ UNCHANGED << argVars, poolVars, ret, error, result, synthVars >>

\* The next iteration: llm_call is entered with the step's payload.
ChainCall ==
  /\ pc = "loop"
  /\ step < Len(prompts)
  /\ step' = step + 1
  /\ calls' = Append(calls, [payload |-> StepPayload(prompts[step + 1], result),
                             status |-> "running", out |-> None])
  /\ pc' = "calling"
  /\ UNCHANGED << argVars, poolVars, ret, error, result, synthVars >>

\* llm_call returns out, which becomes result.
ChainStepReturn(out) ==
  /\ pc = "calling"
  /\ result' = out
  /\ calls' = [calls EXCEPT ![Len(calls)] = [@ EXCEPT !.status = "ok", !.out = out]]
  /\ pc' = "loop"
  /\ UNCHANGED << argVars, poolVars, ret, error, step, synthVars >>

\* A loop that catches the step's exception and goes on to the next step.
ChainStepFail_Continue ==
  /\ pc = "calling"
  /\ pc' = "loop"
  /\ calls' = [calls EXCEPT ![Len(calls)].status = "failed"]
  /\ UNCHANGED << argVars, poolVars, ret, error, result, step, synthVars >>

\* llm_call raises: nothing in chain() catches it.
ChainStepFail ==
  /\ pc = "calling"
  /\ pc' = "raised"
  /\ error' = [type |-> "ExecutionError"]
  /\ calls' = [calls EXCEPT ![Len(calls)].status = "failed"]
  /\ UNCHANGED << argVars, poolVars, ret, result, step, synthVars >>

\* return result
ChainReturn ==
  /\ pc = "loop"
  /\ step = Len(prompts)
  /\ pc' = "done"
  /\ ret' = result
  /\ UNCHANGED << argVars, poolVars, error, chainVars, synthVars >>

\* ------------------------------------------------------------------ Next

Next ==
  \/ PoolCreate
  \/ Submit
  \/ BeginCollect
  \/ \E i \in 1..Len(futures) : WorkerStart(i)
  \/ \E i \in 1..Len(futures) : \E out \in LlmOutputs : WorkerReturn(i, out)
  \/ \E i \in 1..Len(futures) : WorkerFail(i)
  \/ \E i \in 1..Len(futures) : Collect(i)
  \/ ShutdownRaise
  \/ ParallelReturn
  \/ DelegateReturn
  \/ SynthesizeEnter
  \/ \E out \in Outputs : SynthReturn(out)
  \/ SynthFail
  \/ ExecuteSynthesize
  \/ VoteReturn
  \/ ChainEnter
  \/ ChainCall
  \/ \E out \in Texts : ChainStepReturn(out)
  \/ ChainStepFail
  \/ ChainReturn

Spec == Init /\ [][Next]_vars

\* ------------------------------------------- parallel() under fairness

\* The runs of parallel(), one list of inputs per length: the pool and
\* as_completed never read the text of an item, so the scheduling of a run
\* depends on inputs only through their number.
ParallelInit ==
  /\ Init
  /\ op = "parallel"
  /\ Range(inputs) \subseteq {"a"}

\* The steps of the calling thread of parallel().
CallerStep ==
  \/ PoolCreate
  \/ Submit
  \/ BeginCollect
  \/ \E i \in 1..Len(futures) : Collect(i)
  \/ ShutdownRaise
  \/ ParallelReturn

\* The i-th pooled call leaves llm_call, with a value or an exception.
CallEnds(i) == (\E out \in LlmOutputs : WorkerReturn(i, out)) \/ WorkerFail(i)

ParallelNext ==
  \/ CallerStep
  \/ \E i \in 1..MaxInputs : WorkerStart(i)
  \/ \E i \in 1..MaxInputs : CallEnds(i)

\* What every step of parallel() changes: the position of the calling
\* thread, the futures as_completed has still to yield, and the number and
\* state of the submitted calls.
progress ==
  << pc, snap, finishedQ, [k \in 1..Len(futures) |-> futures[k].state] >>

\* The calling thread keeps running, an idle pool thread takes the oldest
\* queued call, and every llm_call entered returns or raises.
FairSpec ==
  /\ ParallelInit
  /\ [][ParallelNext]_vars
  /\ WF_progress(CallerStep)
  /\ \A i \in 1..MaxInputs : WF_progress(WorkerStart(i))
  /\ \A i \in 1..MaxInputs : WF_progress(CallEnds(i))

\* ================================================================ claims

Ended == pc \in {"done", "raised"}
FailedCalls == { i \in 1..Len(futures) : futures[i].state = "failed" }
OkCalls == { i \in 1..Len(futures) : futures[i].state = "ok" }

\* ret is seq rearranged: some one-to-one assignment of positions to calls
\* puts at each position the value of its call.
IsRearrangement(seq, n) ==
  /\ Len(seq) = n
  /\ \E pi \in Permutations(1..n) :
       \A k \in 1..n : /\ futures[pi[k]].state = "ok"
                       /\ seq[k] = futures[pi[k]].value
                       /\ seq[k][1] = inputs[pi[k]]

\* C1 - Completeness: whatever the outcome of each executor call, a run of
\* parallel() over N >= 1 inputs with a valid pool size ends by handing the
\* caller exactly N results, one per submitted item.
C1_Completeness ==
  (op = "parallel" /\ n_workers >= 1 /\ Len(inputs) >= 1 /\ Ended)
    => (pc = "done" /\ IsRearrangement(ret, Len(inputs)))

\* What the caller holds of the call i when the operation has ended.
Received(i) ==
  /\ pc = "done"
  /\ IF op = "parallel" THEN futures[i].value \in Range(ret)
     ELSE /\ futures[i].value[1] \in DOMAIN ret
          /\ ret[futures[i].value[1]] = futures[i].value[2]

\* C2 - Fan-out isolation: when a call of parallel() or delegate() has
\* failed, the operation still ends normally and the caller receives the
\* result of every call that succeeded.
C2_FanOutIsolation ==
  (op \in {"parallel", "delegate"} /\ Ended /\ FailedCalls # {})
    => (pc = "done" /\ \A i \in OkCalls : Received(i))

ConfiguredMax ==
  CASE op = "parallel" -> n_workers
    [] op \in DelegateOps -> IF n_workers # 0 THEN n_workers ELSE Len(workers)
    [] OTHER           -> n_votes

\* C4 - Concurrency bound: in every state of a run of parallel(), delegate()
\* or consensus_vote() the number of executor calls in flight is at most the
\* configured maximum concurrency.
C4_ConcurrencyBound ==
  op \in FanOps => Cardinality(Running) <= ConfiguredMax

\* More items than workers: the pool is full while a call waits in the queue.
C4_Witness ==
  /\ op \in FanOps
  /\ Len(futures) > ConfiguredMax
  /\ Cardinality(Running) = ConfiguredMax
  /\ Queued # {}

\* C5 - Pipeline data dependency: chain() makes its calls in the order of
\* prompts, one at a time; the payload of step 1 combines prompts[1] with
\* input_text, the payload of every later step combines its own prompt with
\* the output of the step before it, and the value returned is the output
\* of the last step.
C5_PipelineDependency ==
  op = "chain" =>
    /\ Len(calls) = step
    /\ step <= Len(prompts)
    /\ \A k \in 1..Len(calls) :
         /\ calls[k].payload.prompt = prompts[k]
         /\ calls[k].payload.input =
              IF k = 1 THEN input_text ELSE calls[k - 1].out
         /\ k < Len(calls) => calls[k].status = "ok"
    /\ pc = "done" =>
         /\ Len(calls) = Len(prompts)
         /\ ret = IF prompts = <<>> THEN input_text ELSE calls[Len(calls)].out

\* A finished three-step run whose input and first two outputs all differ.
C5_Witness ==
  /\ op = "chain"
  /\ pc = "done"
  /\ Len(prompts) = 3
  /\ calls[1].out # input_text
  /\ calls[2].out # input_text
  /\ calls[2].out # calls[1].out
  /\ calls[3].payload.input = calls[2].out

\* C6 - Pipeline fail-fast: a failed call of chain() is the last call ever
\* made (no later step is called, the step is not called again) and the run
\* has ended with that failure.
C6_FailFast ==
  op = "chain" =>
    \A k \in 1..Len(calls) :
      calls[k].status = "failed" =>
        /\ k = Len(calls)
        /\ Len(calls) = step
        /\ pc = "raised"
        /\ error.type = "ExecutionError"

\* Step 2 of a three-step pipeline failed: step 3 was never called.
C6_Witness ==
  /\ op = "chain"
  /\ Len(prompts) = 3
  /\ pc = "raised"
  /\ Len(calls) = 2
  /\ calls[1].status = "ok"
  /\ calls[2].status = "failed"

\* C7 - Pipeline failure reporting: when step k of chain() fails, the error
\* raised to the caller carries the index k of the failing step.
C7_ErrorNamesStep ==
  (op = "chain" /\ pc = "raised")
    => ("step" \in DOMAIN error /\ error.step = step)

\* C8 - Vote winner and tie-break: the winner returned by consensus_vote
\* for distinct options is an option whose count is the maximum of the
\* tally, and every option that comes before it in options has a strictly
\* smaller count.
C8_WinnerTieBreak ==
  (op = "consensus_vote" /\ pc = "done") =>
    \E p \in 1..Len(options) :
      /\ ret.winner = options[p]
      /\ \A q \in 1..Len(options) :
           /\ ret.votes[options[q]] <= ret.votes[options[p]]
           /\ q < p => ret.votes[options[q]] < ret.votes[options[p]]

\* Two options tied with one vote each: the first one won.
C8_Witness ==
  /\ op = "consensus_vote"
  /\ pc = "done"
  /\ Len(options) = 2
  /\ ret.votes[options[1]] = 1
  /\ ret.votes[options[2]] = 1
  /\ ret.winner = options[1]

\* The calls whose response holds a delimited choice that is the text o.
BallotsFor(o) ==
  { i \in OkCalls : /\ VoteMatch(futures[i].out).found
                    /\ Strip(VoteMatch(futures[i].out).group1) = o }

TallySum(counts) == SumOver(counts, DOMAIN counts)

\* C9 - Discard isolation in the tally: the keys of the tally are the
\* options, the count of an option is the number of ballots whose delimited
\* choice is that option's text (an unparseable ballot counts for nothing),
\* and the counts sum to no more than the number of voters.
C9_DiscardIsolation ==
  (op = "consensus_vote" /\ pc = "done") =>
    /\ DOMAIN ret.votes = Range(options)
    /\ \A o \in Range(options) : ret.votes[o] = Cardinality(BallotsFor(o))
    /\ TallySum(ret.votes) <= n_votes

Unmatched == { i \in 1..Len(futures) : futures[i].value \notin Range(options) }

RatioLess(a, b, c, d) == a * d < c * b

\* C11 - Consensus strength denominator: the strength returned by
\* consensus_vote is the winner's count over the requested n_votes; when
\* some but not all ballots were discarded it is strictly lower than the
\* winner's count over the ballots counted.
C11_StrengthOverVoters ==
  (op = "consensus_vote" /\ pc = "done") =>
    LET s == ret.consensus_strength
        valid == TallySum(ret.votes)
    IN /\ s[1] = ret.votes[ret.winner]
       /\ s[2] = n_votes
       /\ (0 < valid /\ valid < n_votes) => RatioLess(s[1], s[2], s[1], valid)

\* Two voters, one discarded: the strength is 1/2, not 1/1.
C11_Witness ==
  /\ op = "consensus_vote"
  /\ pc = "done"
  /\ n_votes = 2
  /\ TallySum(ret.votes) = 1
  /\ ret.consensus_strength = << 1, 2 >>

AllSubmitted == Len(futures) = NItems
AllFinished == \A i \in 1..Len(futures) : Finished(i)
OkNames == { workers[i] : i \in OkCalls }

\* C12 - Synthesis precondition in execute: when every delegated worker
\* call has failed, execute() ends with an AggregationError and no synthesis
\* call was made.
C12_SynthesisPrecondition ==
  (op = "execute" /\ Ended /\ Len(workers) >= 1 /\ AllSubmitted
     /\ \A i \in 1..Len(futures) : futures[i].state = "failed")
    => (pc = "raised" /\ error.type = "AggregationError" /\ synth = <<>>)

\* C13 - Degraded delegation: when some but not all worker calls failed,
\* delegate() returns the mapping of exactly the workers whose call
\* succeeded, and execute() synthesizes from that mapping.
C13_DegradedDelegation ==
  (op \in DelegateOps /\ Ended /\ AllSubmitted /\ AllFinished
     /\ FailedCalls # {} /\ OkCalls # {})
    => IF op = "delegate"
         THEN pc = "done" /\ DOMAIN ret = OkNames
         ELSE synth # <<>> /\ DOMAIN synth[1].payload.reports = OkNames

\* C14 - Zero valid ballots: when every voter answered and no ballot matched
\* an option, consensus_vote() ends with an AggregationError and returns no
\* winner.
C14_ZeroValidBallots ==
  (op = "consensus_vote" /\ Ended /\ n_votes >= 1 /\ options # <<>>
     /\ AllSubmitted /\ OkCalls = 1..n_votes
     /\ \A k \in 1..Len(options) : options[k] # <<>>
     /\ \A i \in OkCalls : futures[i].value \notin Range(options))
    => (pc = "raised" /\ error.type = "AggregationError")

\* C15 - Empty option set is rejected before dispatch: consensus_vote()
\* with no option never submits a voting call, and ends with an error.
C15_EmptyOptionsRejected ==
  (op = "consensus_vote" /\ options = <<>>)
    => (futures = <<>> /\ (Ended => pc = "raised"))

\* C16 - Zero voters is rejected before dispatch: consensus_vote() with
\* n_votes = 0 never submits a voting call and never returns; once it has
\* taken a step it has ended with an error.
C16_ZeroVotersRejected ==
  (op = "consensus_vote" /\ n_votes = 0)
    => /\ futures = <<>>
       /\ pc \in {"start", "raised"}
       /\ pc = "raised" => error.type = "ValueError"

\* consensus_vote() with no voter has raised, with options to choose from.
C16_Witness ==
  /\ op = "consensus_vote"
  /\ n_votes = 0
  /\ options # <<>>
  /\ pc = "raised"

\* C17 - Empty report set in synthesize: synthesize() with an empty mapping
\* makes no executor call and ends with an error.
C17_EmptyReportsRejected ==
  (op = "synthesize" /\ DOMAIN worker_results = {})
    => (synth = <<>> /\ (Ended => pc = "raised" /\ synth = <<>>))

SwarmOps == {"delegate", "execute", "synthesize", "consensus_vote"}

\* Every call made so far went to the tier configured for it.
Routed ==
  /\ \A i \in 1..Len(futures) :
       futures[i].state # "queued" => futures[i].model = worker_model
  /\ \A k \in 1..Len(synth) : synth[k].model = coordinator_model

\* A step of a swarm run keeps every call on its tier and both tiers fixed.
RoutedStep ==
  op \in SwarmOps =>
    /\ Routed'
    /\ worker_model' = worker_model
    /\ coordinator_model' = coordinator_model

\* C18 - Two-tier capability routing: in a run of HierarchicalSwarm every
\* delegated worker call and every voting call is made with worker_model,
\* the synthesis call with coordinator_model, and no step changes either.
C18_TwoTierRouting == [][RoutedStep]_vars

\* A run of execute() whose worker calls and synthesis call are all made.
C18_Witness ==
  /\ op = "execute"
  /\ pc = "done"
  /\ Len(futures) >= 2
  /\ coordinator_model # worker_model
  /\ \A i \in 1..Len(futures) : futures[i].model = worker_model
  /\ synth[1].model = coordinator_model

\* C19 as stated - Delegate-then-synthesize ordering: every run of
\* execute() over at least one worker makes exactly one synthesis call.
C19_ExactlyOneSynthesis ==
  (op = "execute" /\ Ended /\ Len(workers) >= 1) => Len(synth) = 1

\* The report of every call, by worker name.
Reports == [name \in OkNames |->
              futures[CHOOSE i \in OkCalls : workers[i] = name].out]

\* C19 as amended - a run of execute() makes at most one synthesis call,
\* and exactly one when it returns; once the call began every worker call
\* has been submitted and has ended, none is queued or running, and the
\* payload holds the report of every worker of the mapping delegate()
\* returned.
C19_SynthesisAfterDelegation ==
  op = "execute" =>
    /\ Len(synth) <= 1
    /\ synth # <<>> =>
         /\ AllSubmitted
         /\ AllFinished
         /\ worker_results = Reports
         /\ synth[1].payload.reports = worker_results
    /\ pc = "done" => Len(synth) = 1

\* execute() returned after synthesizing from the reports of three workers.
C19_Witness ==
  /\ op = "execute"
  /\ pc = "done"
  /\ Len(workers) = 3
  /\ Len(synth) = 1
  /\ DOMAIN synth[1].payload.reports = Range(workers)

\* The futures the loop of parallel() has taken from as_completed.
Consumed ==
  IF pc = "collect"
    THEN { i \in 1..Len(futures) : Finished(i) } \ (snap \cup Range(finishedQ))
    ELSE 1..Len(futures)

\* results holds the value of every consumed future once: as many entries
\* as consumed futures, and each value as often as consumed futures bear it.
OncePerConsumed ==
  /\ Len(results) = Cardinality(Consumed)
  /\ \A i \in Consumed :
       Cardinality({ k \in 1..Len(results) : results[k] = futures[i].value })
         = Cardinality({ j \in Consumed : futures[j].value = futures[i].value })

\* The collecting loop appends one entry to results and nothing else does.
AppendsOne ==
  /\ pc = "collect"
  /\ Len(results') = Len(results) + 1
  /\ SubSeq(results', 1, Len(results)) = results
  /\ futures' = futures

\* A step of parallel() leaves results alone or is an append by the loop.
SingleWriterStep == op = "parallel" => (results' = results \/ AppendsOne)

\* C20 - Result accumulator exclusivity: in parallel(), while the loop runs
\* and when it has returned, results holds exactly one entry per consumed
\* completion; a step changes results only by appending one entry, and only
\* the collecting loop does so, so no entry is lost or overwritten.
C20_AccumulatorExclusive ==
  /\ [](op = "parallel" /\ pc \in {"collect", "done"} => OncePerConsumed)
  /\ [][SingleWriterStep]_vars

\* Two completions collected while a third call is still running.
C20_Witness ==
  /\ op = "parallel"
  /\ pc = "collect"
  /\ Len(inputs) = 3
  /\ Len(results) = 2
  /\ Running # {}

\* C21 - Siblings are not cancelled: when a call of parallel() or delegate()
\* has failed and the operation has ended, every item was submitted and
\* every submitted call has been started and has run to its end.
C21_SiblingsNotCancelled ==
  (op \in {"parallel"} \cup DelegateOps /\ Ended /\ FailedCalls # {})
    => (AllSubmitted /\ AllFinished)

\* parallel() raised on the failure of the first call collected, and the
\* two other calls ended during the shutdown of the pool.
C21_Witness ==
  /\ op = "parallel"
  /\ pc = "raised"
  /\ Len(futures) = 3
  /\ results = <<>>
  /\ Cardinality(OkCalls) = 2
  /\ snap = {}
  /\ finishedQ = <<>>

\* The ballots of the voters, in the order the votes were submitted.
Ballots == [i \in 1..Len(futures) |-> futures[i].value]

\* What lines 149-163 return for the ballots taken in the order pi.
VoteResult(pi) ==
  LET votes == [k \in 1..Len(futures) |-> Ballots[pi[k]]]
      counts == vote_counts(options, votes)
      winner == MaxKey(DictKeys(options), counts)
  IN [votes |-> counts,
      winner |-> winner,
      consensus_strength |-> consensus_strength(counts, winner)]

\* C22 - Vote result is independent of completion order: when
\* consensus_vote() has returned, its tally, winner and strength are what
\* the same ballots give in every order in which the voters could have
\* completed.
C22_OrderIndependent ==
  (op = "consensus_vote" /\ pc = "done")
    => \A pi \in Permutations(1..Len(futures)) : ret = VoteResult(pi)

\* Two voters tied on two options, collected in the reverse of the order
\* they were submitted in.
C22_Witness ==
  /\ op = "consensus_vote"
  /\ pc = "done"
  /\ Len(options) = 2
  /\ n_votes = 2
  /\ Ballots = << options[1], options[2] >>
  /\ results = << options[2], options[1] >>
  /\ ret.winner = options[1]

\* C23 - Delegate correlates reports by worker name: when delegate() has
\* returned, the keys of the mapping are exactly the configured worker names
\* and the value of each name is the output of the call that was made with
\* the role prompt of that worker.
C23_CorrelatedByName ==
  (op = "delegate" /\ pc = "done")
    => /\ DOMAIN ret = Range(workers)
       /\ \A name \in Range(workers) :
            \E i \in 1..Len(futures) :
              /\ futures[i].prompt = << system_prompt(name), "task" >>
              /\ futures[i].state = "ok"
              /\ ret[name] = futures[i].out

\* Three workers on two pool threads, the second worker collected first
\* and with another output than the first worker's.
C23_Witness ==
  /\ op = "delegate"
  /\ pc = "done"
  /\ Len(workers) = 3
  /\ n_workers = 2
  /\ results[1][1] = workers[2]
  /\ ret[workers[1]] # ret[workers[2]]

\* The calls of chain() that llm_call has not left yet.
CallsInFlight == { k \in 1..Len(calls) : calls[k].status = "running" }

\* C25 - Pipeline call count: chain() never has two executor calls in
\* flight and never makes more calls than prompts; a run that returns
\* without a failing step has made exactly one call per prompt; with an
\* empty prompt list it makes no call, does not raise, and returns the
\* initial input unchanged.
C25_CallCount ==
  op = "chain" =>
    /\ Cardinality(CallsInFlight) <= 1
    /\ Len(calls) <= Len(prompts)
    /\ pc = "done" =>
         /\ Len(calls) = Len(prompts)
         /\ \A k \in 1..Len(calls) : calls[k].status = "ok"
    /\ prompts = <<>> =>
         /\ calls = <<>>
         /\ pc # "raised"
         /\ pc = "done" => ret = input_text

\* A run over three prompts, two of them the same, returned after three
\* calls.
C25_Witness ==
  /\ op = "chain"
  /\ pc = "done"
  /\ Len(prompts) = 3
  /\ prompts[1] = prompts[2]
  /\ Len(calls) = 3
  /\ CallsInFlight = {}

\* Every item of inputs was submitted and its call entered exactly once.
StartedOnce ==
  /\ AllSubmitted
  /\ \A i \in 1..Len(futures) : futures[i].starts = 1

\* C24 - Fan-out terminates: under fair scheduling, and with every executor
\* call returning or failing, parallel() called with n_workers >= 1
\* eventually returns or raises, every submitted item having been started
\* exactly once.
C24_FanOutTerminates ==
  (op = "parallel" /\ n_workers >= 1) ~> (Ended /\ StartedOnce)

\* parallel() returned three results from a pool of one thread.
C24_Witness ==
  /\ op = "parallel"
  /\ pc = "done"
  /\ Len(inputs) = 3
  /\ max_workers = 1
  /\ Len(ret) = 3
  /\ StartedOnce

====
